---- MODULE Spec2Model ----
(***************************************************************************)
(* Barrel Cellar: the barrel analysis engine of the VS Code extension.      *)
(*                                                                         *)
(* Two tree data providers are modelled over one file system:               *)
(*   - BarrelViewProvider (the provider with the source file cache),        *)
(*     driven by the file watcher: sourceFileCache, cacheSourceFile, the    *)
(*     export/import counters, checkBarrelFile and getChildren;             *)
(*   - BarrelFilesProvider (src/barrel.treeview.ts, the provider that       *)
(*     extension.ts registers): pathCache, resolveModulePath, parseBarrel   *)
(*     and getChildren/collectBarrelFiles.                                  *)
(*                                                                         *)
(* Strings are modelled by what the code does with them.  A file name is a  *)
(* sequence of tokens ("a.d.ts" is <<"a", ".d", ".ts">>), so that endsWith, *)
(* extname and appending an extension are suffix operations; a path is a    *)
(* sequence of such segments, so that join, dirname and basename act on     *)
(* segments.  Source text is a sequence of statements; ts.createSourceFile  *)
(* turns it into a tree of nodes.                                           *)
(***************************************************************************)
EXTENDS Integers, Sequences, FiniteSets, TLC

(***************************************************************************)
(* Bounds of the model.                                                     *)
(***************************************************************************)
\* notifications the watcher holds undelivered
MaxQueue == 2
\* statements of a module drawn for the classifier specification
MaxDecls == 2
\* named members of one export clause drawn for the classifier specification
MaxNames == 2

(***************************************************************************)
(* Strings: extensions, names, paths.                                       *)
(***************************************************************************)
ExtTs == <<".ts">>
ExtTsx == <<".tsx">>
ExtDts == <<".d", ".ts">>
ExtPatch == <<".patch", ".ts">>

extensionPriority == <<ExtTs, ExtTsx, ExtDts, ExtPatch>>

\* String.prototype.endsWith on token sequences
EndsWith(name, suffix) ==
    /\ Len(name) >= Len(suffix)
    /\ SubSeq(name, Len(name) - Len(suffix) + 1, Len(name)) = suffix

\* path.dirname / path.basename
Dirname(p) == SubSeq(p, 1, Len(p) - 1)
Basename(p) == p[Len(p)]

\* p lies below the directory dir, at any depth
IsBelow(dir, p) == Len(p) > Len(dir) /\ SubSeq(p, 1, Len(dir)) = dir

\* the segments "." and ".." of a relative specifier
Cur == <<".">>
Up == <<"..">>

\* path.normalize of an absolute path: "." is dropped, ".." removes a segment
RECURSIVE NormalizeFrom(_, _)
NormalizeFrom(done, rest) ==
    IF rest = <<>> THEN done
    ELSE IF Head(rest) = Cur THEN NormalizeFrom(done, Tail(rest))
    ELSE IF Head(rest) = Up
         THEN NormalizeFrom(IF done = <<>> THEN done ELSE Dirname(done), Tail(rest))
    ELSE NormalizeFrom(Append(done, Head(rest)), Tail(rest))

\* path.join(base, relative) and path.resolve(base, relative), base absolute
Join(base, rel) == NormalizeFrom(<<>>, base \o rel)

\* specifier + ext: the extension is appended to the text of the specifier
AddExt(spec, ext) ==
    IF spec = <<>> THEN <<ext>>
    ELSE [spec EXCEPT ![Len(spec)] = @ \o ext]

(***************************************************************************)
(* The workspace: a fixed directory tree in which source files come and go. *)
(***************************************************************************)
Root == << <<"ws">> >>
PkgDir == Root \o << <<"pkg">> >>

IndexTs == <<"index", ".ts">>
PkgIndex == PkgDir \o <<IndexTs>>
PkgA == PkgDir \o << <<"a", ".ts">> >>
PkgADts == PkgDir \o << <<"a", ".d", ".ts">> >>
PkgB == PkgDir \o << <<"b", ".ts">> >>

\* a package below pkg/, a dependency store and a hidden directory
SubDir == PkgDir \o << <<"sub">> >>
SubIndex == SubDir \o <<IndexTs>>
DepsDir == Root \o << <<"node_modules">> >>
DepsMod == DepsDir \o << <<"dep", ".ts">> >>
HiddenDir == Root \o << <<".cache">> >>
HiddenMod == HiddenDir \o << <<"h", ".ts">> >>

Dirs == {Root, PkgDir, SubDir, DepsDir, HiddenDir}
FilePaths == {PkgIndex, PkgA, PkgADts, PkgB, SubIndex, DepsMod, HiddenMod}

\* fs.readdirSync(dir): every name the directory can hold, in readdir's order
AllEntries(dir) ==
    IF dir = Root THEN << <<".cache">>, <<"node_modules">>, <<"pkg">> >>
    ELSE IF dir = PkgDir
         THEN << <<"a", ".d", ".ts">>, <<"a", ".ts">>, <<"b", ".ts">>, IndexTs, <<"sub">> >>
    ELSE IF dir = SubDir THEN <<IndexTs>>
    ELSE IF dir = DepsDir THEN << <<"dep", ".ts">> >>
    ELSE IF dir = HiddenDir THEN << <<"h", ".ts">> >>
    ELSE <<>>

\* the specifiers the modules of the workspace use
SpecA == <<Cur, <<"a">> >>
SpecB == <<Cur, <<"b">> >>
\* './a.ts', './sub' and '../index'
SpecATs == <<Cur, <<"a", ".ts">> >>
SpecSub == <<Cur, <<"sub">> >>
SpecUpIndex == <<Up, <<"index">> >>

(***************************************************************************)
(* Source text and its syntax tree.                                         *)
(***************************************************************************)
NoSpec == [present |-> FALSE, segs |-> <<>>]
From(spec) == [present |-> TRUE, segs |-> spec]

\* one statement of source text
Stmt(syntax, exported, typeOnly, names, from, body) ==
    [syntax |-> syntax, exported |-> exported, typeOnly |-> typeOnly,
     names |-> names, from |-> from, body |-> body]

\* export * from 'x'   /   export type * from 'x'
ExportStar(spec, typeOnly) == Stmt("export_star", FALSE, typeOnly, 0, From(spec), <<>>)
\* export { a, b } from 'x'   /   export type { A } from 'x'
ExportNamedFrom(spec, n, typeOnly) == Stmt("export_named", FALSE, typeOnly, n, From(spec), <<>>)
\* export { a, b }   (no module specifier)
ExportLocal(n, typeOnly) == Stmt("export_named", FALSE, typeOnly, n, NoSpec, <<>>)
\* export = x   /   export default x
ExportAssign == Stmt("export_assign", FALSE, FALSE, 0, NoSpec, <<>>)
\* import { a } from 'x'   /   import type { A } from 'x'
Import(spec, typeOnly) == Stmt("import", FALSE, typeOnly, 1, From(spec), <<>>)
\* import { a, b } from 'x'   /   import type { A, B } from 'x'   (n names)
ImportNames(spec, n, typeOnly) == Stmt("import", FALSE, typeOnly, n, From(spec), <<>>)
\* import 'x'   (no import clause)
ImportBare(spec) == Stmt("import", FALSE, FALSE, 0, From(spec), <<>>)
\* import x = require('y')
ImportEquals(spec) == Stmt("import_equals", FALSE, FALSE, 0, From(spec), <<>>)
\* [export] const / enum / type / interface / namespace { body }
Decl(syntax, exported) == Stmt(syntax, exported, FALSE, 0, NoSpec, <<>>)
Namespace(exported, body) == Stmt("namespace", exported, FALSE, 0, NoSpec, body)

\* ts.SyntaxKind of the node a statement parses to
KindOf(syntax) ==
    CASE syntax = "export_star" -> "ExportDeclaration"
      [] syntax = "export_named" -> "ExportDeclaration"
      [] syntax = "export_assign" -> "ExportAssignment"
      [] syntax = "import" -> "ImportDeclaration"
      [] syntax = "import_equals" -> "ImportEqualsDeclaration"
      [] syntax = "enum" -> "EnumDeclaration"
      [] syntax = "type" -> "TypeAliasDeclaration"
      [] syntax = "interface" -> "InterfaceDeclaration"
      [] syntax = "const" -> "VariableStatement"
      [] syntax = "namespace" -> "ModuleDeclaration"
      [] OTHER -> "ExpressionStatement"

\* the node of one statement; the parser recovers from text it cannot read
\* (an ExpressionStatement) and never throws
RECURSIVE ParseStmts(_)
ParseStmt(s) ==
    [kind |-> KindOf(s.syntax),
     exportModifier |-> s.exported /\ s.syntax \in {"enum", "type", "interface", "const", "namespace"},
     isTypeOnly |-> s.typeOnly /\ s.syntax \in {"export_star", "export_named", "import"},
     namedExports |-> s.syntax = "export_named",
     importClause |-> s.syntax = "import" /\ s.names > 0,
     elements |-> IF s.syntax = "export_named" THEN s.names ELSE 0,
     moduleSpecifier |-> IF s.syntax \in {"export_star", "export_named", "import"}
                         THEN s.from ELSE NoSpec,
     children |-> IF s.syntax = "namespace" THEN ParseStmts(s.body) ELSE <<>>]
ParseStmts(text) ==
    IF text = <<>> THEN <<>> ELSE <<ParseStmt(Head(text))>> \o ParseStmts(Tail(text))

\* ts.createSourceFile(fileName, text, ...): the SourceFile node
createSourceFile(fileName, text) ==
    [fileName |-> fileName, statements |-> ParseStmts(text)]

(***************************************************************************)
(* State.                                                                   *)
(***************************************************************************)
VARIABLES
    disk,             \* the file system: the text of each source file, if it exists
    queue,            \* the watcher's notifications, not yet delivered
    sourceFileCache,  \* BarrelViewProvider: Map<filePath, ts.SourceFile>
    pathCache,        \* BarrelFilesProvider: Map<cacheKey, string | undefined>
    held,             \* barrel tree items the view has handed to the editor
    lastQuery,        \* the query that just ran and what it returned
    lastHandled,      \* the notification handled last (history)
    lastNotif,        \* per path, the last notification handled for it (history)
    walk              \* the traversal in progress: its call stack and what it has done

vars == <<disk, queue, sourceFileCache, pathCache, held, lastQuery, lastHandled, lastNotif,
          walk>>

Absent == [exists |-> FALSE, text |-> <<>>]
File(text) == [exists |-> TRUE, text |-> text]

\* Map.prototype.set / delete on a function with a finite domain
MapSet(m, k, v) == (k :> v) @@ m
MapDelete(m, k) == [x \in (DOMAIN m) \ {k} |-> m[x]]
EmptyMap == [x \in {} |-> {}]

\* the workspace folder and pkg/ are always there; another directory is there
\* while it holds a file
dirExists(d, dir) ==
    \/ dir \in {Root, PkgDir}
    \/ \E i \in DOMAIN AllEntries(dir) :
          /\ (dir \o <<AllEntries(dir)[i]>>) \in FilePaths
          /\ d[dir \o <<AllEntries(dir)[i]>>].exists
\* fs.existsSync: a directory, or a file, that is there
existsSync(d, p) == (p \in Dirs /\ dirExists(d, p)) \/ (p \in FilePaths /\ d[p].exists)
\* fs.statSync(p).isDirectory() / isFile(), of a path that exists
statIsDirectory(p) == p \in Dirs
\* fs.readFileSync succeeds on a file that is there, and throws otherwise
canRead(d, p) == p \in FilePaths /\ d[p].exists
\* fs.readdirSync(dir): the names that exist, in order
RECURSIVE ExistingOf(_, _, _)
ExistingOf(d, dir, names) ==
    IF names = <<>> THEN <<>>
    ELSE (IF existsSync(d, dir \o <<Head(names)>>) THEN <<Head(names)>> ELSE <<>>)
         \o ExistingOf(d, dir, Tail(names))
readdirSync(d, dir) == ExistingOf(d, dir, AllEntries(dir))

(***************************************************************************)
(* BarrelViewProvider: the source file cache.                               *)
(***************************************************************************)
\* cacheSourceFile whose catch keeps the stale record
CacheSourceFileKeepsStale(cache, d, filePath) ==
    IF canRead(d, filePath)
    THEN [cache |-> MapSet(cache, filePath, createSourceFile(filePath, d[filePath].text)),
          threw |-> FALSE]
    ELSE [cache |-> cache, threw |-> FALSE]

\* cacheSourceFile without its try/catch: the read error escapes
CacheSourceFileNoCatch(cache, d, filePath) ==
    IF canRead(d, filePath)
    THEN [cache |-> MapSet(cache, filePath, createSourceFile(filePath, d[filePath].text)),
          threw |-> FALSE]
    ELSE [cache |-> cache, threw |-> TRUE]

\* cacheSourceFile that adds the new statements to the record it finds
CacheSourceFileAccumulates(cache, d, filePath) ==
    IF canRead(d, filePath)
    THEN [cache |-> MapSet(cache, filePath,
                       [fileName |-> filePath,
                        statements |-> (IF filePath \in DOMAIN cache
                                        THEN cache[filePath].statements ELSE <<>>)
                                       \o ParseStmts(d[filePath].text)]),
          threw |-> FALSE]
    ELSE [cache |-> MapDelete(cache, filePath), threw |-> FALSE]

\* cacheSourceFile that starts a new cache with the record it reads
CacheSourceFileDropsOthers(cache, d, filePath) ==
    IF canRead(d, filePath)
    THEN [cache |-> MapSet(EmptyMap, filePath, createSourceFile(filePath, d[filePath].text)),
          threw |-> FALSE]
    ELSE [cache |-> MapDelete(cache, filePath), threw |-> FALSE]

\* cacheSourceFile, on a given cache: [cache, threw]
cacheSourceFile(cache, d, filePath) ==
    IF canRead(d, filePath)
    THEN [cache |-> MapSet(cache, filePath, createSourceFile(filePath, d[filePath].text)),
          threw |-> FALSE]
    ELSE [cache |-> MapDelete(cache, filePath), threw |-> FALSE]

\* removeSourceFileFromCache
removeSourceFileFromCache(cache, filePath) ==
    [cache |-> MapDelete(cache, filePath), threw |-> FALSE]

\* scanAndCacheSourceFiles(dir): every .ts/.tsx file below dir is cached
RECURSIVE ScanEntries(_, _, _, _)
ScanEntries(cache, d, dir, names) ==
    IF names = <<>> THEN cache
    ELSE LET fullPath == dir \o <<Head(names)>>
             next ==
                 IF statIsDirectory(fullPath)
                 THEN ScanEntries(cache, d, fullPath, readdirSync(d, fullPath))
                 ELSE IF EndsWith(Head(names), ExtTs) \/ EndsWith(Head(names), ExtTsx)
                      THEN cacheSourceFile(cache, d, fullPath).cache
                 ELSE cache
         IN ScanEntries(next, d, dir, Tail(names))
scanAndCacheSourceFiles(d, dir) == ScanEntries(EmptyMap, d, dir, readdirSync(d, dir))

(***************************************************************************)
(* BarrelViewProvider: the declaration counters, over the cached tree.      *)
(***************************************************************************)
RECURSIVE Sum(_)
Sum(s) == IF s = <<>> THEN 0 ELSE Head(s) + Sum(Tail(s))

NoCounts == [value |-> <<>>, type |-> <<>>]
Counts(v, t) == [value |-> v, type |-> t]
Plus(a, b) == [value |-> a.value \o b.value, type |-> a.type \o b.type]

\* handleExportDeclaration that overlooks the declaration's type-only flag
handleExportDeclarationNoTypeOnly(node) ==
    IF node.namedExports THEN Counts(<<node.elements>>, <<>>) ELSE Counts(<<1>>, <<>>)

\* getExportSymbolCounts.handleExportDeclaration
handleExportDeclaration(node) ==
    IF node.namedExports
    THEN IF node.isTypeOnly THEN Counts(<<>>, <<node.elements>>)
         ELSE Counts(<<node.elements>>, <<>>)
    ELSE IF node.isTypeOnly THEN Counts(<<>>, <<1>>)
    ELSE Counts(<<1>>, <<>>)

\* getExportSymbolCounts.handleExportKeyword
handleExportKeyword(node) ==
    IF node.kind = "EnumDeclaration" THEN Counts(<<1>>, <<>>)
    ELSE IF node.kind \in {"TypeAliasDeclaration", "InterfaceDeclaration"}
         THEN Counts(<<>>, <<1>>)
    ELSE Counts(<<1>>, <<>>)

\* getExportSymbolCounts.countExports: the node, then its children
RECURSIVE countExportsAll(_)
countExportsNode(node) ==
    Plus(IF node.kind = "ExportDeclaration" THEN handleExportDeclaration(node)
         ELSE IF node.kind = "ExportAssignment" THEN Counts(<<1>>, <<>>)
         ELSE IF node.exportModifier THEN handleExportKeyword(node)
         ELSE NoCounts,
         countExportsAll(node.children))
countExportsAll(nodes) ==
    IF nodes = <<>> THEN NoCounts
    ELSE Plus(countExportsNode(Head(nodes)), countExportsAll(Tail(nodes)))

\* getExportSymbolCounts(filePath)
getExportSymbolCounts(filePath) ==
    IF filePath \notin DOMAIN sourceFileCache THEN NoCounts
    ELSE countExportsAll(sourceFileCache[filePath].statements)

\* getNumberOfExports.countExports (the cache-backed counter)
RECURSIVE numberOfExportsAll(_, _)
numberOfExportsNode(node, typeOnly) ==
    (IF node.kind = "ExportDeclaration"
     THEN IF (IF typeOnly THEN node.isTypeOnly ELSE ~node.isTypeOnly)
          THEN IF node.namedExports THEN node.elements ELSE 1
          ELSE 0
     ELSE IF node.kind = "ExportAssignment"
          THEN IF ~typeOnly THEN 1 ELSE 0
     ELSE IF node.exportModifier
          THEN LET isType == node.kind \in {"TypeAliasDeclaration", "InterfaceDeclaration",
                                             "EnumDeclaration"}
               IN IF (IF typeOnly THEN isType ELSE ~isType) THEN 1 ELSE 0
     ELSE 0)
    + numberOfExportsAll(node.children, typeOnly)
numberOfExportsAll(nodes, typeOnly) ==
    IF nodes = <<>> THEN 0
    ELSE numberOfExportsNode(Head(nodes), typeOnly) + numberOfExportsAll(Tail(nodes), typeOnly)

\* getNumberOfExports(filePath, typeOnly)
getNumberOfExports(filePath, typeOnly) ==
    IF filePath \notin DOMAIN sourceFileCache THEN 0
    ELSE numberOfExportsAll(sourceFileCache[filePath].statements, typeOnly)

\* getNumberOfImports.countImports
RECURSIVE numberOfImportsAll(_, _)
\* countImports that counts an import-equals declaration in both buckets
numberOfImportsNodeEqualsInBoth(node, typeOnly) ==
    (IF node.kind = "ImportDeclaration"
     THEN LET isType == node.importClause /\ node.isTypeOnly
          IN IF (IF typeOnly THEN isType ELSE ~isType) THEN 1 ELSE 0
     ELSE IF node.kind = "ImportEqualsDeclaration" THEN 1
     ELSE 0)
    + numberOfImportsAll(node.children, typeOnly)

numberOfImportsNode(node, typeOnly) ==
    (IF node.kind = "ImportDeclaration"
     THEN LET isType == node.importClause /\ node.isTypeOnly
          IN IF (IF typeOnly THEN isType ELSE ~isType) THEN 1 ELSE 0
     ELSE IF node.kind = "ImportEqualsDeclaration"
          THEN IF ~typeOnly THEN 1 ELSE 0
     ELSE 0)
    + numberOfImportsAll(node.children, typeOnly)
numberOfImportsAll(nodes, typeOnly) ==
    IF nodes = <<>> THEN 0
    ELSE numberOfImportsNode(Head(nodes), typeOnly) + numberOfImportsAll(Tail(nodes), typeOnly)

\* getNumberOfImports(filePath, typeOnly)
getNumberOfImports(filePath, typeOnly) ==
    IF filePath \notin DOMAIN sourceFileCache THEN 0
    ELSE numberOfImportsAll(sourceFileCache[filePath].statements, typeOnly)

\* checkBarrelFile(filePath), cache-backed: any top-level ExportDeclaration
checkBarrelFile(filePath) ==
    IF filePath \notin DOMAIN sourceFileCache THEN FALSE
    ELSE \E i \in DOMAIN sourceFileCache[filePath].statements :
            sourceFileCache[filePath].statements[i].kind = "ExportDeclaration"

\* new TreeItem(directory, isDirectory, isBarrel): the statistics it displays
TreeItem(directory, isDirectory, isBarrel) ==
    LET expCounts == getExportSymbolCounts(directory)
        stat == ~isDirectory
    IN [directory |-> directory,
        isDirectory |-> isDirectory,
        isBarrel |-> isBarrel,
        name |-> Basename(directory),
        exportSymbolCount |-> IF stat THEN Sum(expCounts.value) + Sum(expCounts.type) ELSE 0,
        valueExportCount |-> IF stat THEN Len(expCounts.value) ELSE 0,
        typeExportCount |-> IF stat THEN Len(expCounts.type) ELSE 0,
        importSymbolCount |-> IF stat THEN getNumberOfImports(directory, FALSE)
                                           + getNumberOfImports(directory, TRUE)
                              ELSE 0,
        valueImportCount |-> IF stat THEN getNumberOfImports(directory, FALSE) ELSE 0,
        typeImportCount |-> IF stat THEN getNumberOfImports(directory, TRUE) ELSE 0]

(***************************************************************************)
(* BarrelViewProvider.getChildren.                                          *)
(***************************************************************************)
\* what a query hands back: it returned items, or it threw
Returned(items) == [threw |-> FALSE, items |-> items]
Thrown == [threw |-> TRUE, items |-> <<>>]

\* getChildren(): the root item
getChildrenRoot == Returned(<<TreeItem(Root, TRUE, FALSE)>>)

\* the barrel branch's extension probe: the first extension of the list whose
\* file exists is appended to the export path
RECURSIVE ProbeExtension(_, _, _, _)
ProbeExtension(d, dir, exportPath, exts) ==
    IF exts = <<>> THEN exportPath
    ELSE IF existsSync(d, Join(dir, AddExt(exportPath, Head(exts))))
         THEN AddExt(exportPath, Head(exts))
    ELSE ProbeExtension(d, dir, exportPath, Tail(exts))

\* the barrel branch, for one top-level node: the item it pushes, if any
exportItemsOf(d, dir, node) ==
    IF node.kind = "ExportDeclaration" /\ node.moduleSpecifier.present
    THEN LET text == node.moduleSpecifier.segs
             exportPath ==
                 IF ~(EndsWith(Basename(text), ExtTs) \/ EndsWith(Basename(text), ExtTsx))
                 THEN ProbeExtension(d, dir, text, extensionPriority)
                 ELSE text
             exportFilePath == Join(dir, exportPath)
         IN IF existsSync(d, exportFilePath)
            THEN <<TreeItem(exportFilePath, FALSE, FALSE)>>
            ELSE <<>>
    ELSE <<>>

RECURSIVE exportItemsAll(_, _, _)
exportItemsAll(d, dir, nodes) ==
    IF nodes = <<>> THEN <<>>
    ELSE exportItemsOf(d, dir, Head(nodes)) \o exportItemsAll(d, dir, Tail(nodes))

\* getChildren(element), element.isBarrel: the file is read without a try
getChildrenBarrel(element) ==
    IF ~canRead(disk, element.directory) THEN Thrown
    ELSE Returned(exportItemsAll(disk, Dirname(element.directory),
                     createSourceFile(element.directory,
                                      disk[element.directory].text).statements))

\* file.startsWith('.') and file !== 'node_modules'
StartsWithDot(name) == name[1] \in {".", "..", ".git", ".cache", ".d", ".ts", ".tsx", ".patch"}
NodeModules == <<"node_modules">>

\* the directory branch's filter over readdirSync(directory)
keepsEntry(directory, file) ==
    LET filePath == Join(directory, <<file>>)
        hasIndex == /\ existsSync(disk, Join(filePath, <<IndexTs>>))
                    /\ getNumberOfExports(Join(filePath, <<IndexTs>>), FALSE) > 0
    IN /\ file # NodeModules
       /\ ~StartsWithDot(file)
       /\ (~statIsDirectory(filePath) \/ hasIndex)

RECURSIVE directoryItems(_, _)
directoryItems(directory, files) ==
    IF files = <<>> THEN <<>>
    ELSE (IF /\ keepsEntry(directory, Head(files))
             /\ existsSync(disk, Join(directory, <<Head(files)>>))
             /\ statIsDirectory(Join(directory, <<Head(files)>>))
          THEN <<TreeItem(Join(directory, <<Head(files)>>), TRUE, FALSE)>>
          ELSE <<>>)
         \o directoryItems(directory, Tail(files))

\* a.label.localeCompare(b.label): the label is "Barrel: " + name for a barrel and
\* the name otherwise; names are lower case, so a barrel's label sorts as "barrel..."
LabelRank(item) ==
    IF item.isBarrel THEN 2
    ELSE IF item.name[1] \in {"a"} THEN 1
    ELSE 3

\* Array.prototype.sort by label (stable), as an insertion sort
RECURSIVE InsertByLabel(_, _)
InsertByLabel(sorted, item) ==
    IF sorted = <<>> THEN <<item>>
    ELSE IF LabelRank(item) < LabelRank(Head(sorted)) THEN <<item>> \o sorted
    ELSE <<Head(sorted)>> \o InsertByLabel(Tail(sorted), item)
RECURSIVE SortByLabel(_)
SortByLabel(items) ==
    IF items = <<>> THEN <<>>
    ELSE InsertByLabel(SortByLabel(SubSeq(items, 1, Len(items) - 1)), items[Len(items)])

\* getChildren(element), element a directory
getChildrenDirectory(directory) ==
    IF directory \notin Dirs THEN Returned(<<>>)
    ELSE LET barrelPath == Join(directory, <<IndexTs>>)
         IN Returned(SortByLabel(
                directoryItems(directory, readdirSync(disk, directory))
                \o (IF existsSync(disk, barrelPath) /\ checkBarrelFile(barrelPath)
                    THEN <<TreeItem(barrelPath, FALSE, TRUE)>>
                    ELSE <<>>)))

(***************************************************************************)
(* BarrelFilesProvider: resolveModulePath, parseBarrel, getChildren.        *)
(***************************************************************************)
Undefined == [defined |-> FALSE, path |-> <<>>]
Resolved(p) == [defined |-> TRUE, path |-> p]

\* extensionPriority.flatMap(ext => [join(base, spec + ext), join(base, spec, 'index' + ext)])
RECURSIVE possiblePaths(_, _, _)
possiblePaths(baseDir, moduleSpecifier, exts) ==
    IF exts = <<>> THEN <<>>
    ELSE << Join(baseDir, AddExt(moduleSpecifier, Head(exts))),
            Join(baseDir, moduleSpecifier \o << <<"index">> \o Head(exts) >>) >>
         \o possiblePaths(baseDir, moduleSpecifier, Tail(exts))

\* the first of the paths that exists
RECURSIVE FirstExisting(_, _)
FirstExisting(d, paths) ==
    IF paths = <<>> THEN Undefined
    ELSE IF existsSync(d, Head(paths)) THEN Resolved(Head(paths))
    ELSE FirstExisting(d, Tail(paths))

\* const x = v; F(x): v is computed once, whatever F does with it
Bind(v, F(_)) == CHOOSE y \in {F(x) : x \in {v}} : TRUE

\* resolveModulePath(baseDir, moduleSpecifier) on a given pathCache: [cache, result]
resolveModulePath(cache, d, baseDir, moduleSpecifier) ==
    LET cacheKey == Join(baseDir, moduleSpecifier)
        probe(paths) == LET found == FirstExisting(d, paths)
                        IN [cache |-> MapSet(cache, cacheKey, found), result |-> found]
    IN IF cacheKey \in DOMAIN cache
       THEN [cache |-> cache, result |-> cache[cacheKey]]
       ELSE Bind(possiblePaths(baseDir, moduleSpecifier, extensionPriority), probe)

\* parseBarrel's loop over the top-level nodes: [cache, exports]
RECURSIVE parseBarrelNodes(_, _, _, _)
parseBarrelNodes(cache, d, barrelDir, nodes) ==
    IF nodes = <<>> THEN [cache |-> cache, exports |-> <<>>]
    ELSE LET node == Head(nodes)
             isReExport == node.kind = "ExportDeclaration" /\ node.moduleSpecifier.present
             entry(r) == IF isReExport /\ r.result.defined
                         THEN << [label |-> Basename(node.moduleSpecifier.segs),
                                  path |-> r.result.path,
                                  directory |-> Dirname(r.result.path),
                                  isTypeOnly |-> node.isTypeOnly] >>
                         ELSE <<>>
             after(r) == LET rest == parseBarrelNodes(r.cache, d, barrelDir, Tail(nodes))
                         IN [cache |-> rest.cache, exports |-> entry(r) \o rest.exports]
         IN Bind(IF isReExport
                 THEN resolveModulePath(cache, d, barrelDir, node.moduleSpecifier.segs)
                 ELSE [cache |-> cache, result |-> Undefined],
                 after)

\* parseBarrel(filePath) on a given pathCache: [threw, cache, barrelPath, exports]
parseBarrel(cache, d, filePath) ==
    IF ~canRead(d, filePath)
    THEN [threw |-> TRUE, cache |-> cache, barrelPath |-> filePath, exports |-> <<>>]
    ELSE LET r == parseBarrelNodes(cache, d, Dirname(filePath),
                                   createSourceFile(filePath, d[filePath].text).statements)
         IN [threw |-> FALSE, cache |-> r.cache, barrelPath |-> filePath,
             exports |-> r.exports]

\* getChildren().collectBarrelFiles(directory): [threw, cache, barrelFiles]
RECURSIVE collectEntries(_, _, _, _)
collectEntries(acc, d, directory, names) ==
    IF names = <<>> \/ acc.threw THEN acc
    ELSE LET filePath == Join(directory, <<Head(names)>>)
             next ==
                 IF statIsDirectory(filePath)
                 THEN collectEntries(acc, d, filePath, readdirSync(d, filePath))
                 ELSE IF EndsWith(Head(names), IndexTs)
                      THEN LET b == parseBarrel(acc.cache, d, filePath)
                           IN IF b.threw
                              THEN [acc EXCEPT !.threw = TRUE]
                              ELSE [threw |-> FALSE, cache |-> b.cache,
                                    barrelFiles |-> Append(acc.barrelFiles,
                                        [barrelPath |-> b.barrelPath, exports |-> b.exports])]
                 ELSE acc
         IN collectEntries(next, d, directory, Tail(names))

collectBarrelFiles(cache, d, directory) ==
    collectEntries([threw |-> FALSE, cache |-> cache, barrelFiles |-> <<>>],
                   d, directory, readdirSync(d, directory))

\* content.includes(`'${barrelPath}'`) || content.includes(`"${barrelPath}"`): the
\* quoted strings of a module text are the specifiers of its statements
RECURSIVE IncludesQuoted(_, _)
IncludesQuoted(text, barrelPath) ==
    \E i \in DOMAIN text :
        \/ text[i].from.present /\ text[i].from.segs = barrelPath
        \/ IncludesQuoted(text[i].body, barrelPath)

\* findFilesUsingBarrel(barrelPath).searchFiles(directory)
RECURSIVE searchFiles(_, _, _, _, _)
searchFiles(acc, d, directory, names, barrelPath) ==
    IF names = <<>> THEN acc
    ELSE LET filePath == Join(directory, <<Head(names)>>)
             next ==
                 IF statIsDirectory(filePath)
                 THEN searchFiles(acc, d, filePath, readdirSync(d, filePath), barrelPath)
                 ELSE IF EndsWith(Head(names), ExtTs)
                      THEN IF IncludesQuoted(d[filePath].text, barrelPath)
                           THEN Append(acc, filePath)
                           ELSE acc
                 ELSE acc
         IN searchFiles(next, d, directory, Tail(names), barrelPath)

\* findFilesUsingBarrel(barrelPath): the files under the workspace folder
findFilesUsingBarrel(d, barrelPath) ==
    searchFiles(<<>>, d, Root, readdirSync(d, Root), barrelPath)

\* getChildren(element): the files using the element when it has no exports, and
\* its exports otherwise, each as an element without exports
getChildrenElement(d, element) ==
    IF element.exports = <<>>
    THEN LET found == findFilesUsingBarrel(d, element.barrelPath)
         IN [k \in DOMAIN found |-> [barrelPath |-> found[k], exports |-> <<>>]]
    ELSE [k \in DOMAIN element.exports |->
             [barrelPath |-> element.exports[k].path, exports |-> <<>>]]

(***************************************************************************)
(* The texts the files of the workspace take.                               *)
(***************************************************************************)
\* pkg/index.ts: export * from './a'; export type { B } from './b';
IndexBarrel == <<ExportStar(SpecA, FALSE), ExportNamedFrom(SpecB, 1, TRUE)>>
\* pkg/index.ts without a re-export: const a = 1; export { a };
IndexLocal == <<Decl("const", FALSE), ExportLocal(1, FALSE)>>
\* pkg/a.ts: export const a = 1;
TextA == <<Decl("const", TRUE)>>
\* pkg/a.d.ts: export declare const a: number;
TextADts == <<Decl("const", TRUE)>>
\* pkg/b.ts: export type B = number;
TextB == <<Decl("type", TRUE)>>
\* pkg/b.ts that imports a.ts by its path: import { a } from '/ws/pkg/a.ts'; export type B = number;
TextBUsesA == <<Import(PkgA, FALSE), Decl("type", TRUE)>>
\* pkg/sub/index.ts: export * from '../index';
TextSub == <<ExportStar(SpecUpIndex, FALSE)>>
\* node_modules/dep.ts and .cache/h.ts: import { a } from '/ws/pkg/a.ts';
TextDep == <<Import(PkgA, FALSE)>>

Texts(p) ==
    IF p = PkgIndex THEN {IndexBarrel, IndexLocal}
    ELSE IF p = PkgA THEN {TextA}
    ELSE IF p = PkgADts THEN {TextADts}
    ELSE IF p = SubIndex THEN {TextSub}
    ELSE IF p \in {DepsMod, HiddenMod} THEN {TextDep}
    ELSE {TextB}

\* the workspace the extension is activated in
InitialDisk ==
    [p \in FilePaths |->
        IF p = PkgIndex THEN File(IndexBarrel)
        ELSE IF p = PkgA THEN File(TextA)
        ELSE IF p = PkgB THEN File(TextB)
        ELSE Absent]

(***************************************************************************)
(* History and query records.                                               *)
(***************************************************************************)
NoQuery == [op |-> "none", arg |-> <<>>, threw |-> FALSE, items |-> <<>>]
Query(op, arg, r) == [op |-> op, arg |-> arg, threw |-> r.threw, items |-> r.items]

NoNotification == [kind |-> "none", file |-> Absent]

\* no traversal is in progress, none has run
NoWalk == [kind |-> "none", arg |-> <<>>, stack |-> <<>>, visited |-> <<>>, out |-> <<>>,
           cache0 |-> EmptyMap]
NotHandled == [kind |-> "none", path |-> <<>>, had |-> FALSE, again |-> FALSE, threw |-> FALSE]

Init ==
    /\ disk = InitialDisk
    /\ queue = <<>>
    /\ sourceFileCache = scanAndCacheSourceFiles(InitialDisk, Root)
    /\ pathCache = EmptyMap
    /\ held = {}
    /\ lastQuery = NoQuery
    /\ lastHandled = NotHandled
    /\ lastNotif = [p \in FilePaths |-> NoNotification]
    /\ walk = NoWalk

(***************************************************************************)
(* The file system changes under the watcher ("**/*.{ts,tsx}").             *)
(***************************************************************************)
Notify(kind, p) == queue' = Append(queue, [kind |-> kind, path |-> p])

CreateFile(p, text) ==
    /\ Len(queue) < MaxQueue
    /\ ~disk[p].exists
    /\ disk' = [disk EXCEPT ![p] = File(text)]
    /\ Notify("create", p)
    /\ lastQuery' = NoQuery
    /\ UNCHANGED <<walk, sourceFileCache, pathCache, held, lastHandled, lastNotif>>

ChangeFile(p, text) ==
    /\ Len(queue) < MaxQueue
    /\ disk[p].exists
    /\ disk' = [disk EXCEPT ![p] = File(text)]
    /\ Notify("change", p)
    /\ lastQuery' = NoQuery
    /\ UNCHANGED <<walk, sourceFileCache, pathCache, held, lastHandled, lastNotif>>

DeleteFile(p) ==
    /\ Len(queue) < MaxQueue
    /\ disk[p].exists
    /\ disk' = [disk EXCEPT ![p] = Absent]
    /\ Notify("delete", p)
    /\ lastQuery' = NoQuery
    /\ UNCHANGED <<walk, sourceFileCache, pathCache, held, lastHandled, lastNotif>>

\* the files that come and go while the view provider is watched; the others stay
ViewFiles == {PkgIndex, PkgA}
\* the files that come and go while the files provider is watched
ListFiles == {PkgIndex, PkgA, PkgADts, PkgB}

FileSystem(paths) ==
    \E p \in paths :
        \/ \E text \in Texts(p) : CreateFile(p, text)
        \/ \E text \in Texts(p) : ChangeFile(p, text)
        \/ DeleteFile(p)

(***************************************************************************)
(* BarrelViewProvider: the watcher's handlers and the queries.              *)
(***************************************************************************)
\* what a handler leaves behind: the cache, and the history of the notification
Handled(kind, p, r) ==
    /\ sourceFileCache' = r.cache
    /\ lastHandled' = [kind |-> kind, path |-> p,
                       had |-> p \in DOMAIN sourceFileCache,
                       again |-> /\ lastHandled.kind = kind
                                 /\ lastHandled.path = p
                                 /\ lastNotif[p].file = disk[p],
                       threw |-> r.threw]
    /\ lastNotif' = [lastNotif EXCEPT ![p] = [kind |-> kind, file |-> disk[p]]]
    /\ queue' = Tail(queue)
    /\ lastQuery' = NoQuery
    /\ UNCHANGED <<walk, disk, pathCache, held>>

\* watcher.onDidChange((uri) => { cacheSourceFile(uri.fsPath); this.refresh(); })
ViewOnDidChange ==
    /\ queue # <<>>
    /\ Head(queue).kind = "change"
    /\ Handled("change", Head(queue).path,
               cacheSourceFile(sourceFileCache, disk, Head(queue).path))

\* watcher.onDidCreate((uri) => { cacheSourceFile(uri.fsPath); this.refresh(); })
ViewOnDidCreate ==
    /\ queue # <<>>
    /\ Head(queue).kind = "create"
    /\ Handled("create", Head(queue).path,
               cacheSourceFile(sourceFileCache, disk, Head(queue).path))

\* watcher.onDidDelete((uri) => { removeSourceFileFromCache(uri.fsPath); this.refresh(); })
ViewOnDidDelete ==
    /\ queue # <<>>
    /\ Head(queue).kind = "delete"
    /\ Handled("delete", Head(queue).path,
               removeSourceFileFromCache(sourceFileCache, Head(queue).path))

\* the barrel items among the items of a result
BarrelPathsOf(items) == {items[i].directory : i \in {j \in DOMAIN items : items[j].isBarrel}}

\* getChildren(undefined)
ViewGetChildrenRoot ==
    /\ lastQuery' = Query("viewRoot", Root, getChildrenRoot)
    /\ UNCHANGED <<walk, disk, queue, sourceFileCache, pathCache, held, lastHandled, lastNotif>>

\* getChildren(element) of a directory item
ViewGetChildrenDirectory(directory) ==
    /\ existsSync(disk, directory)
    /\ lastQuery' = Query("viewDirectory", directory, getChildrenDirectory(directory))
    /\ held' = held \cup BarrelPathsOf(getChildrenDirectory(directory).items)
    /\ UNCHANGED <<walk, disk, queue, sourceFileCache, pathCache, lastHandled, lastNotif>>

\* getChildren(element) of a barrel item the editor holds
ViewGetChildrenBarrel(barrelPath) ==
    /\ barrelPath \in held
    /\ lastQuery' = Query("viewBarrel", barrelPath,
                          getChildrenBarrel(TreeItem(barrelPath, FALSE, TRUE)))
    /\ UNCHANGED <<walk, disk, queue, sourceFileCache, pathCache, held, lastHandled, lastNotif>>

ViewQueries ==
    \/ ViewGetChildrenRoot
    \/ \E directory \in Dirs : ViewGetChildrenDirectory(directory)
    \/ \E barrelPath \in FilePaths : ViewGetChildrenBarrel(barrelPath)

NextView ==
    \/ FileSystem(ViewFiles)
    \/ ViewOnDidChange
    \/ ViewOnDidCreate
    \/ ViewOnDidDelete
    \/ ViewQueries

SpecView == Init /\ [][NextView]_vars

(***************************************************************************)
(* BarrelFilesProvider: the watcher's handlers and the queries.             *)
(***************************************************************************)
\* watcher.onDidChange / onDidCreate / onDidDelete: () => this.refresh(), which
\* fires onDidChangeTreeData and touches no state of the provider
FilesRefresh(kind) ==
    /\ queue # <<>>
    /\ Head(queue).kind = kind
    /\ queue' = Tail(queue)
    /\ lastHandled' = [kind |-> kind, path |-> Head(queue).path,
                       had |-> FALSE, again |-> FALSE, threw |-> FALSE]
    /\ lastQuery' = NoQuery
    /\ UNCHANGED <<walk, disk, sourceFileCache, pathCache, held, lastNotif>>

FilesOnDidChange == FilesRefresh("change")
FilesOnDidCreate == FilesRefresh("create")
FilesOnDidDelete == FilesRefresh("delete")

\* getChildren(undefined): collectBarrelFiles over the workspace folder
FilesGetChildren ==
    LET r == collectBarrelFiles(pathCache, disk, Root)
    IN /\ pathCache' = r.cache
       /\ lastQuery' = [op |-> "listBarrels", arg |-> Root, threw |-> r.threw,
                        items |-> IF r.threw THEN <<>> ELSE r.barrelFiles]
       /\ UNCHANGED <<walk, disk, queue, sourceFileCache, held, lastHandled, lastNotif>>

\* getChildren(element), of an element of the result the editor has just received
FilesGetChildrenElement(i) ==
    /\ lastQuery.op \in {"listBarrels", "expandElement", "filesUsing"}
    /\ i \in DOMAIN lastQuery.items
    /\ lastQuery' = [op |-> IF lastQuery.items[i].exports = <<>>
                            THEN "filesUsing" ELSE "expandElement",
                     arg |-> lastQuery.items[i].barrelPath,
                     threw |-> FALSE,
                     items |-> getChildrenElement(disk, lastQuery.items[i])]
    /\ UNCHANGED <<walk, disk, queue, sourceFileCache, pathCache, held, lastHandled, lastNotif>>

Next ==
    \/ FileSystem(ListFiles)
    \/ FilesOnDidChange
    \/ FilesOnDidCreate
    \/ FilesOnDidDelete
    \/ FilesGetChildren
    \/ \E i \in DOMAIN lastQuery.items : FilesGetChildrenElement(i)

Spec == Init /\ [][Next]_vars

(***************************************************************************)
(* The classifier specification: pkg/index.ts holds any module of at most   *)
(* MaxDecls statements, the view provider has scanned it, and the editor    *)
(* queries the tree.                                                        *)
(***************************************************************************)
ClassifyStmts ==
    {ExportStar(SpecA, t) : t \in BOOLEAN}
    \cup {ExportNamedFrom(SpecB, n, t) : n \in 0..MaxNames, t \in BOOLEAN}
    \cup {ExportLocal(1, FALSE), ExportAssign}
    \cup {Import(SpecA, t) : t \in BOOLEAN}
    \cup {ImportNames(SpecB, MaxNames, t) : t \in BOOLEAN}
    \cup {ImportBare(SpecA), ImportEquals(SpecA)}
    \cup {Decl(k, TRUE) : k \in {"enum", "type", "interface", "const"}}
    \cup {Decl("const", FALSE)}
    \cup {Namespace(TRUE, <<Decl("const", TRUE)>>), Namespace(FALSE, <<Import(SpecA, FALSE)>>)}
    \cup {Decl("garbage", FALSE)}

ClassifyModules == UNION {[1..k -> ClassifyStmts] : k \in 0..MaxDecls}

InitClassify ==
    /\ disk \in {[InitialDisk EXCEPT ![PkgIndex] = File(m)] : m \in ClassifyModules}
    /\ queue = <<>>
    /\ sourceFileCache = scanAndCacheSourceFiles(disk, Root)
    /\ pathCache = EmptyMap
    /\ held = {}
    /\ lastQuery = NoQuery
    /\ lastHandled = NotHandled
    /\ lastNotif = [p \in FilePaths |-> NoNotification]
    /\ walk = NoWalk

NextClassify == ViewQueries

SpecClassify == InitClassify /\ [][NextClassify]_vars

(***************************************************************************)
(* The tree specification: the view provider over the whole workspace, with *)
(* the package below pkg/, the dependency store and the hidden directory.   *)
(***************************************************************************)
TreeDisk ==
    [InitialDisk EXCEPT ![SubIndex] = File(TextSub),
                        ![DepsMod] = File(TextDep),
                        ![HiddenMod] = File(TextDep)]

InitTree ==
    /\ disk = TreeDisk
    /\ queue = <<>>
    /\ sourceFileCache = scanAndCacheSourceFiles(TreeDisk, Root)
    /\ pathCache = EmptyMap
    /\ held = {}
    /\ lastQuery = NoQuery
    /\ lastHandled = NotHandled
    /\ lastNotif = [p \in FilePaths |-> NoNotification]
    /\ walk = NoWalk

NextTree ==
    \/ FileSystem({PkgIndex})
    \/ ViewOnDidChange
    \/ ViewOnDidCreate
    \/ ViewOnDidDelete
    \/ ViewQueries

SpecTree == InitTree /\ [][NextTree]_vars

(***************************************************************************)
(* The resolver specification: pkg/index.ts holds any module of at most     *)
(* MaxDecls re-exports, the files they name exist or not, and the editor    *)
(* queries both providers.                                                  *)
(***************************************************************************)
ResolveStmts ==
    {ExportStar(spec, FALSE) : spec \in {SpecA, SpecATs, SpecSub, SpecB}}
    \cup {ExportNamedFrom(SpecA, 1, TRUE)}

ResolveModules == UNION {[1..k -> ResolveStmts] : k \in 0..MaxDecls}

ResolveDisks ==
    {[TreeDisk EXCEPT ![PkgIndex] = File(m), ![PkgA] = fa, ![PkgADts] = fd,
                      ![SubIndex] = fs, ![PkgB] = File(TextBUsesA)] :
        m \in ResolveModules,
        fa \in {Absent, File(TextA)},
        fd \in {Absent, File(TextADts)},
        fs \in {Absent, File(TextSub)}}

InitResolve ==
    /\ disk \in ResolveDisks
    /\ queue = <<>>
    /\ sourceFileCache = scanAndCacheSourceFiles(disk, Root)
    /\ pathCache = EmptyMap
    /\ held = {}
    /\ lastQuery = NoQuery
    /\ lastHandled = NotHandled
    /\ lastNotif = [p \in FilePaths |-> NoNotification]
    /\ walk = NoWalk

NextResolve ==
    \/ FilesGetChildren
    \/ \E i \in DOMAIN lastQuery.items : FilesGetChildrenElement(i)
    \/ ViewQueries

SpecResolve == InitResolve /\ [][NextResolve]_vars

(***************************************************************************)
(* The traversals, one loop iteration at a time: scanAndCacheSourceFiles,   *)
(* collectBarrelFiles, findFilesUsingBarrel's searchFiles, and the          *)
(* expansion of an element that parses each of its exports.  A frame is one *)
(* invocation: its directory and the entries its loop has still to visit.   *)
(* The traversals are synchronous, so nothing else runs during one.         *)
(***************************************************************************)
Frame(directory, names) == [directory |-> directory, names |-> names]
Top == walk.stack[Len(walk.stack)]
WalkRunning == walk.stack # <<>>

\* the loop that moves on without leaving the entry it visited
NextEntryStays(frame) == frame

\* for (const file of ...): the loop moves on to the next entry
NextEntry(frame) == [frame EXCEPT !.names = Tail(@)]

\* a traversal starts: its first invocation, on what readdirSync reports
Started(kind, arg, frame) ==
    [kind |-> kind, arg |-> arg, stack |-> <<frame>>, visited |-> <<>>, out |-> <<>>,
     cache0 |-> pathCache]

\* the walk after the loop of the top invocation has visited its next entry:
\* a directory is entered, a file adds to the result or not
Visited(filePath, out) ==
    LET rest == [walk.stack EXCEPT ![Len(walk.stack)] = NextEntry(Top)]
    IN [walk EXCEPT !.stack = IF filePath \in Dirs
                              THEN Append(rest, Frame(filePath, readdirSync(disk, filePath)))
                              ELSE rest,
                    !.visited = Append(@, filePath),
                    !.out = out]

\* the constructor's scanAndCacheSourceFiles(workspacePath), one entry
ScanStep ==
    /\ walk.kind = "scanAndCacheSourceFiles"
    /\ WalkRunning
    /\ Top.names # <<>>
    /\ LET fullPath == Join(Top.directory, <<Head(Top.names)>>)
       IN /\ walk' = Visited(fullPath, walk.out)
          /\ sourceFileCache' =
                IF ~statIsDirectory(fullPath)
                   /\ (EndsWith(Head(Top.names), ExtTs) \/ EndsWith(Head(Top.names), ExtTsx))
                THEN cacheSourceFile(sourceFileCache, disk, fullPath).cache
                ELSE sourceFileCache
    /\ UNCHANGED <<disk, queue, pathCache, held, lastQuery, lastHandled, lastNotif>>

\* getChildren(): collectBarrelFiles, one entry
CollectStep ==
    /\ walk.kind = "collectBarrelFiles"
    /\ WalkRunning
    /\ Top.names # <<>>
    /\ LET filePath == Join(Top.directory, <<Head(Top.names)>>)
           isIndex == ~statIsDirectory(filePath) /\ EndsWith(Head(Top.names), IndexTs)
       IN \E b \in {IF isIndex THEN parseBarrel(pathCache, disk, filePath)
                    ELSE [threw |-> FALSE]} :
          /\ walk' = IF isIndex /\ b.threw
                      THEN [walk EXCEPT !.stack = <<>>, !.out = <<>>,
                                        !.visited = Append(@, filePath)]
                      ELSE Visited(filePath,
                                   IF isIndex
                                   THEN Append(walk.out, [barrelPath |-> b.barrelPath,
                                                          exports |-> b.exports])
                                   ELSE walk.out)
          /\ pathCache' = IF isIndex THEN b.cache ELSE pathCache
          /\ lastQuery' = IF isIndex /\ b.threw
                          THEN [op |-> "listBarrels", arg |-> Root, threw |-> TRUE,
                                items |-> <<>>]
                          ELSE lastQuery
    /\ UNCHANGED <<disk, queue, sourceFileCache, held, lastHandled, lastNotif>>

\* findFilesUsingBarrel(barrelPath): searchFiles, one entry
SearchStep ==
    /\ walk.kind = "searchFiles"
    /\ WalkRunning
    /\ Top.names # <<>>
    /\ LET filePath == Join(Top.directory, <<Head(Top.names)>>)
       IN walk' = Visited(filePath,
                     IF /\ ~statIsDirectory(filePath)
                        /\ EndsWith(Head(Top.names), ExtTs)
                        /\ IncludesQuoted(disk[filePath].text, walk.arg)
                     THEN Append(walk.out, filePath)
                     ELSE walk.out)
    /\ UNCHANGED <<disk, queue, sourceFileCache, pathCache, held, lastQuery, lastHandled,
                   lastNotif>>

\* getChildren(element) that parses each export: element.exports.map, one export
ExpandStep ==
    /\ walk.kind = "expandExports"
    /\ WalkRunning
    /\ Top.names # <<>>
    /\ \E b \in {parseBarrel(pathCache, disk, Head(Top.names))} :
          /\ walk' = [walk EXCEPT
                        !.stack = IF b.threw THEN <<>>
                                  ELSE [@ EXCEPT ![Len(@)] = NextEntry(Top)],
                        !.visited = Append(@, Head(Top.names)),
                        !.out = IF b.threw THEN <<>>
                                ELSE Append(@, [barrelPath |-> Head(Top.names),
                                                exports |-> b.exports])]
          /\ pathCache' = b.cache
          /\ lastQuery' = IF b.threw
                          THEN [op |-> "expandExports", arg |-> walk.arg, threw |-> TRUE,
                                items |-> <<>>]
                          ELSE lastQuery
    /\ UNCHANGED <<disk, queue, sourceFileCache, held, lastHandled, lastNotif>>

\* what the traversal hands back when its first invocation returns
WalkResult ==
    CASE walk.kind = "collectBarrelFiles" ->
             [op |-> "listBarrels", arg |-> Root, threw |-> FALSE, items |-> walk.out]
      [] walk.kind = "searchFiles" ->
             [op |-> "filesUsing", arg |-> walk.arg, threw |-> FALSE,
              items |-> [k \in DOMAIN walk.out |->
                            [barrelPath |-> walk.out[k], exports |-> <<>>]]]
      [] walk.kind = "expandExports" ->
             [op |-> "expandExports", arg |-> walk.arg, threw |-> FALSE, items |-> walk.out]
      [] OTHER -> lastQuery

\* the loop of the top invocation is over: the invocation returns
WalkReturn ==
    /\ WalkRunning
    /\ Top.names = <<>>
    /\ walk' = [walk EXCEPT !.stack = SubSeq(@, 1, Len(@) - 1)]
    /\ lastQuery' = IF Len(walk.stack) = 1 THEN WalkResult ELSE lastQuery
    /\ UNCHANGED <<disk, queue, sourceFileCache, pathCache, held, lastHandled, lastNotif>>

WalkStep == ScanStep \/ CollectStep \/ SearchStep \/ ExpandStep \/ WalkReturn

\* getChildren() is called
WalkStartCollect ==
    /\ ~WalkRunning
    /\ walk' = Started("collectBarrelFiles", Root, Frame(Root, readdirSync(disk, Root)))
    /\ UNCHANGED <<disk, queue, sourceFileCache, pathCache, held, lastQuery, lastHandled,
                   lastNotif>>

\* getChildren(element) is called with an element without exports
WalkStartSearch(i) ==
    /\ ~WalkRunning
    /\ lastQuery.op \in {"listBarrels", "expandElement", "filesUsing"}
    /\ i \in DOMAIN lastQuery.items
    /\ lastQuery.items[i].exports = <<>>
    /\ walk' = Started("searchFiles", lastQuery.items[i].barrelPath,
                       Frame(Root, readdirSync(disk, Root)))
    /\ UNCHANGED <<disk, queue, sourceFileCache, pathCache, held, lastQuery, lastHandled,
                   lastNotif>>

\* getChildren(element) is called with an element that has exports: they are
\* mapped to elements without exports
WalkExpandElement(i) ==
    /\ ~WalkRunning
    /\ lastQuery.op \in {"listBarrels", "expandElement", "filesUsing"}
    /\ i \in DOMAIN lastQuery.items
    /\ lastQuery.items[i].exports # <<>>
    /\ FilesGetChildrenElement(i)

\* getChildren(element) of the provider that parses each export of the element
WalkStartExpand(i) ==
    /\ ~WalkRunning
    /\ lastQuery.op \in {"listBarrels", "expandExports"}
    /\ ~lastQuery.threw
    /\ i \in DOMAIN lastQuery.items
    /\ walk' = Started("expandExports", lastQuery.items[i].barrelPath,
                       Frame(lastQuery.items[i].barrelPath,
                             [k \in DOMAIN lastQuery.items[i].exports |->
                                 lastQuery.items[i].exports[k].path]))
    /\ UNCHANGED <<disk, queue, sourceFileCache, pathCache, held, lastQuery, lastHandled,
                   lastNotif>>

\* pkg/index.ts and pkg/sub/index.ts re-export each other:
\* export * from './sub'; export * from './a';
IndexCycle == <<ExportStar(SpecSub, FALSE), ExportStar(SpecA, FALSE)>>

WalkDisks ==
    {[TreeDisk EXCEPT ![PkgIndex] = File(m), ![SubIndex] = fs] :
        m \in {IndexBarrel, IndexCycle}, fs \in {Absent, File(TextSub)}}

\* the constructor has reached its call of scanAndCacheSourceFiles(workspacePath)
InitWalk ==
    /\ disk \in WalkDisks
    /\ queue = <<>>
    /\ sourceFileCache = EmptyMap
    /\ pathCache = EmptyMap
    /\ held = {}
    /\ lastQuery = NoQuery
    /\ lastHandled = NotHandled
    /\ lastNotif = [p \in FilePaths |-> NoNotification]
    /\ walk = Started("scanAndCacheSourceFiles", Root, Frame(Root, readdirSync(disk, Root)))

NextWalk ==
    \/ WalkStep
    \/ WalkStartCollect
    \/ \E i \in DOMAIN lastQuery.items : WalkStartSearch(i)
    \/ \E i \in DOMAIN lastQuery.items : WalkExpandElement(i)
    \/ \E i \in DOMAIN lastQuery.items : WalkStartExpand(i)

\* the traversals are synchronous code: a loop that can take its next iteration
\* takes it
SpecWalk == InitWalk /\ [][NextWalk]_vars /\ WF_vars(WalkStep)

(***************************************************************************)
(* Properties.                                                              *)
(***************************************************************************)
\* the export entries of the barrel files the last listing returned
ListedExports ==
    UNION {{lastQuery.items[i].exports[j] : j \in DOMAIN lastQuery.items[i].exports} :
            i \in DOMAIN lastQuery.items}

\* a module text with a top-level re-export-from declaration
HasReExportFrom(text) ==
    \E i \in DOMAIN text :
        text[i].syntax \in {"export_star", "export_named"} /\ text[i].from.present

\* a statement that exports something, at its own level or inside its body
RECURSIVE ExportBearing(_)
ExportBearing(s) ==
    \/ s.syntax \in {"export_star", "export_named", "export_assign"}
    \/ s.exported
    \/ \E i \in DOMAIN s.body : ExportBearing(s.body[i])

\* statement i is a type-only re-export with a named list, and the only export
OnlyTypeOnlyNamedAt(text, i) ==
    /\ text[i].syntax = "export_named"
    /\ text[i].typeOnly
    /\ text[i].from.present
    /\ \A j \in DOMAIN text : j # i => ~ExportBearing(text[j])

Without(text, i) == SubSeq(text, 1, i - 1) \o SubSeq(text, i + 1, Len(text))

\* the items the last directory listing of pkg/ returned for pkg/index.ts
IndexItems ==
    {lastQuery.items[k] : k \in {n \in DOMAIN lastQuery.items :
                                   lastQuery.items[n].directory = PkgIndex}}

ListedPkg == lastQuery.op = "viewDirectory" /\ lastQuery.arg = PkgDir

\* C1: once every notification is delivered, the export entries a listing of the
\* barrels returns all resolve to paths that exist on disk at the time of the query
\* (a deleted re-exported file is no longer among them).
C1_ExpandOnlyExisting ==
    (lastQuery.op = "listBarrels" /\ queue = <<>>)
        => \A e \in ListedExports : existsSync(disk, e.path)

\* C2: for every path a notification was handled for, the source file cache holds
\* a record exactly when that last notification was a create or change that found
\* the file readable, and the record is the parse of the text read then; a delete
\* as last notification leaves no record.
C2_CacheTracksLastNotification ==
    \A p \in FilePaths :
        lastNotif[p].kind # "none" =>
            IF lastNotif[p].kind \in {"create", "change"} /\ lastNotif[p].file.exists
            THEN /\ p \in DOMAIN sourceFileCache
                 /\ sourceFileCache[p] = createSourceFile(p, lastNotif[p].file.text)
            ELSE p \notin DOMAIN sourceFileCache

\* C2 witness: a change of pkg/index.ts was handled and its new text is the one
\* cached, while the last notification of pkg/a.ts was its deletion.
C2_Witness ==
    /\ lastNotif[PkgIndex] = [kind |-> "change", file |-> File(IndexLocal)]
    /\ PkgIndex \in DOMAIN sourceFileCache
    /\ sourceFileCache[PkgIndex] = createSourceFile(PkgIndex, IndexLocal)
    /\ lastNotif[PkgA].kind = "delete"
    /\ PkgA \notin DOMAIN sourceFileCache

\* C3: after an onCreated notification is handled and none is pending, a listing
\* serves no resolution memoized before it: it returns what resolution against the
\* disk, with an empty memoization table, returns (a specifier resolved as absent
\* before its file was created now resolves to the file).
C3_MemoResynchronized ==
    (/\ lastQuery.op = "listBarrels"
     /\ queue = <<>>
     /\ lastHandled.kind = "create")
        => lastQuery.items = collectBarrelFiles(EmptyMap, disk, Root).barrelFiles

\* C4: pkg/index.ts is reported as a barrel exactly when its module has a
\* top-level re-export-from declaration (an export that names a source module).
C4_BarrelIffReExportFrom ==
    ListedPkg =>
        ((\E item \in IndexItems : item.isBarrel) <=> HasReExportFrom(disk[PkgIndex].text))

\* C5: when pkg/ holds both a.ts and a.d.ts and every notification is delivered,
\* the specifier './a' resolves to a.ts, never to a.d.ts.
C5_SourceBeforeDeclaration ==
    (/\ lastQuery.op = "listBarrels"
     /\ queue = <<>>
     /\ disk[PkgA].exists
     /\ disk[PkgADts].exists)
        => \A e \in ListedExports : e.label = <<"a">> => e.path = PkgA

C7_UnreadableRemovesRecord ==
    (/\ lastHandled.kind \in {"create", "change"}
     /\ ~lastNotif[lastHandled.path].file.exists)
        => /\ ~lastHandled.threw
           /\ lastHandled.path \notin DOMAIN sourceFileCache
           /\ getExportSymbolCounts(lastHandled.path) = NoCounts
           /\ getNumberOfImports(lastHandled.path, FALSE) = 0
           /\ getNumberOfImports(lastHandled.path, TRUE) = 0
           /\ TreeItem(lastHandled.path, FALSE, FALSE).exportSymbolCount = 0
           /\ TreeItem(lastHandled.path, FALSE, FALSE).importSymbolCount = 0

\* C7 witness: a change notification found its file deleted while the cache still
\* held the file's record, and the record is gone.
C7_Witness ==
    /\ lastHandled.kind = "change"
    /\ lastHandled.had
    /\ ~lastNotif[lastHandled.path].file.exists
    /\ lastHandled.path \notin DOMAIN sourceFileCache

\* C8: no query raises: a query on a barrel or entry that is missing at query
\* time returns an empty or reduced result.
C8_NoQueryThrows == ~lastQuery.threw

\* C9: a second onChanged(path) in succession, the file's text being what the
\* first one read, leaves the statistics and the barrel verdict of the path as the
\* first one left them.
C9_OnChangedIdempotent ==
    [][\A p \in FilePaths :
          (/\ queue # <<>>
           /\ Head(queue).path = p
           /\ lastHandled.kind = "change"
           /\ lastHandled.path = p
           /\ lastNotif[p].file = disk[p]
           /\ ViewOnDidChange)
              => /\ TreeItem(p, FALSE, FALSE)' = TreeItem(p, FALSE, FALSE)
                 /\ checkBarrelFile(p)' = checkBarrelFile(p)]_vars

\* C9 witness: onChanged(pkg/index.ts) ran twice in succession on the same
\* readable text, and the record is cached.
C9_Witness ==
    /\ lastHandled.kind = "change"
    /\ lastHandled.again
    /\ lastHandled.path = PkgIndex
    /\ disk[PkgIndex].exists
    /\ lastNotif[PkgIndex].file = disk[PkgIndex]
    /\ PkgIndex \in DOMAIN sourceFileCache

\* C10: every barrel file a listing returns is a barrel: its module has a
\* re-export-from declaration.
C10_ListedAreBarrels ==
    lastQuery.op = "listBarrels" =>
        \A i \in DOMAIN lastQuery.items :
            /\ disk[lastQuery.items[i].barrelPath].exists
            /\ HasReExportFrom(disk[lastQuery.items[i].barrelPath].text)

\* the directory holds a barrel module at some depth
BarrelBelow(d, dir) ==
    \E p \in FilePaths :
        /\ d[p].exists
        /\ IsBelow(dir, p)
        /\ Basename(p) = IndexTs
        /\ HasReExportFrom(d[p].text)

\* C11: discovery is complete at every level of the tree: once every notification
\* is delivered, the listing of a directory returns the directory's own barrel
\* index.ts and every subdirectory that holds a barrel at some depth, whether or
\* not that subdirectory has an index.ts of its own.
C11_DiscoveryComplete ==
    (lastQuery.op = "viewDirectory" /\ queue = <<>>) =>
        /\ \A sub \in Dirs :
              (Dirname(sub) = lastQuery.arg /\ BarrelBelow(disk, sub)) =>
                  \E i \in DOMAIN lastQuery.items :
                      lastQuery.items[i].directory = sub /\ lastQuery.items[i].isDirectory
        /\ (/\ Join(lastQuery.arg, <<IndexTs>>) \in FilePaths
            /\ disk[Join(lastQuery.arg, <<IndexTs>>)].exists
            /\ HasReExportFrom(disk[Join(lastQuery.arg, <<IndexTs>>)].text)) =>
                  \E i \in DOMAIN lastQuery.items :
                      /\ lastQuery.items[i].directory = Join(lastQuery.arg, <<IndexTs>>)
                      /\ lastQuery.items[i].isBarrel

\* the export entries a listing returned for pkg/index.ts
IndexExports ==
    UNION {{lastQuery.items[i].exports[j] : j \in DOMAIN lastQuery.items[i].exports} :
            i \in {n \in DOMAIN lastQuery.items : lastQuery.items[n].barrelPath = PkgIndex}}

\* the re-export-from statements of pkg/index.ts
IndexReExports ==
    {disk[PkgIndex].text[k] : k \in {n \in DOMAIN disk[PkgIndex].text :
        /\ disk[PkgIndex].text[n].syntax \in {"export_star", "export_named"}
        /\ disk[PkgIndex].text[n].from.present}}

\* C12: the export targets of one barrel are deduplicated: no two export entries of
\* a listed barrel, and no two items of an expanded barrel, have the same resolved
\* path.
C12_TargetsDeduplicated ==
    /\ lastQuery.op = "listBarrels" =>
          \A i \in DOMAIN lastQuery.items :
              \A j, k \in DOMAIN lastQuery.items[i].exports :
                  j # k => lastQuery.items[i].exports[j].path # lastQuery.items[i].exports[k].path
    /\ lastQuery.op = "viewBarrel" =>
          \A j, k \in DOMAIN lastQuery.items :
              j # k => lastQuery.items[j].directory # lastQuery.items[k].directory

\* C13: a re-export of pkg/index.ts whose specifier already ends with a source
\* extension ('./a.ts') and names an existing file yields an export entry for that
\* file.
C13_DirectExtensionResolves ==
    (lastQuery.op = "listBarrels" /\ disk[PkgIndex].exists) =>
        \A st \in IndexReExports :
            (/\ EndsWith(Basename(st.from.segs), ExtTs) \/ EndsWith(Basename(st.from.segs), ExtTsx)
             /\ Join(PkgDir, st.from.segs) \in FilePaths
             /\ disk[Join(PkgDir, st.from.segs)].exists)
                => \E e \in IndexExports : e.path = Join(PkgDir, st.from.segs)

\* C14: a directory-style specifier of pkg/index.ts ('./sub', sub/index.ts being
\* there) yields the entry sub/index.ts, and the target of every export entry is a
\* file, never a directory.
C14_DirectoryStyleResolvesToIndex ==
    /\ (lastQuery.op = "listBarrels" /\ disk[PkgIndex].exists) =>
          /\ \A st \in IndexReExports :
                (/\ Join(PkgDir, st.from.segs) \in Dirs
                 /\ disk[Join(PkgDir, st.from.segs \o <<IndexTs>>)].exists)
                    => \E e \in IndexExports :
                          e.path = Join(PkgDir, st.from.segs \o <<IndexTs>>)
          /\ \A e \in IndexExports : ~statIsDirectory(e.path)
    /\ (lastQuery.op = "viewBarrel" /\ lastQuery.arg = PkgIndex /\ ~lastQuery.threw) =>
          /\ \A st \in IndexReExports :
                (/\ Join(PkgDir, st.from.segs) \in Dirs
                 /\ disk[Join(PkgDir, st.from.segs \o <<IndexTs>>)].exists)
                    => \E i \in DOMAIN lastQuery.items :
                          lastQuery.items[i].directory = Join(PkgDir, st.from.segs \o <<IndexTs>>)
          /\ \A i \in DOMAIN lastQuery.items : ~statIsDirectory(lastQuery.items[i].directory)

\* a path below a directory named node_modules or below a hidden directory
UnderExcluded(p) ==
    \E k \in 1..(Len(p) - 1) : p[k] = NodeModules \/ StartsWithDot(p[k])

\* the paths the last query returned
ReturnedPaths == {lastQuery.items[k].barrelPath : k \in DOMAIN lastQuery.items}

\* C17: the files reported as using a module never lie below node_modules or a
\* hidden directory, and every other .ts file of the workspace whose text holds
\* the module's path as a quoted string is reported.
C17_ReferencingModules ==
    lastQuery.op = "filesUsing" =>
        /\ \A p \in ReturnedPaths : ~UnderExcluded(p)
        /\ \A p \in FilePaths :
              (/\ disk[p].exists
               /\ EndsWith(Basename(p), ExtTs)
               /\ ~UnderExcluded(p)
               /\ IncludesQuoted(disk[p].text, lastQuery.arg))
                  => p \in ReturnedPaths

\* what a statement of source text is
IsStmt(s, what) ==
    CASE what = "declaration" ->
             s.syntax \in {"enum", "type", "interface", "const", "namespace", "garbage"}
      [] what = "exportedValue" -> s.exported /\ s.syntax \in {"enum", "const", "namespace"}
      [] what = "exportedType" -> s.exported /\ s.syntax \in {"type", "interface"}
      [] what = "import" -> s.syntax \in {"import", "import_equals"}
      [] what = "typeOnlyImport" -> s.syntax = "import" /\ s.typeOnly
      [] what = "garbage" -> s.syntax = "garbage"
      [] OTHER -> TRUE

\* the statements of a text that are of a sort, at any depth
RECURSIVE CountStmts(_, _)
CountStmts(text, what) ==
    IF text = <<>> THEN 0
    ELSE (IF IsStmt(Head(text), what) THEN 1 ELSE 0)
         + CountStmts(Head(text).body, what)
         + CountStmts(Tail(text), what)

\* C15: over a module that exports by modifier only, both export counters put an
\* exported enum, const or namespace in the value bucket and an exported type
\* alias or interface in the type bucket, one unit each.
C15_ModifierExportsBucketedAlike ==
    LET text == disk[PkgIndex].text
    IN (/\ lastQuery.op = "viewDirectory"
        /\ CountStmts(text, "declaration") = CountStmts(text, "any")) =>
           /\ Len(getExportSymbolCounts(PkgIndex).value) = CountStmts(text, "exportedValue")
           /\ Len(getExportSymbolCounts(PkgIndex).type) = CountStmts(text, "exportedType")
           /\ getNumberOfExports(PkgIndex, FALSE) = CountStmts(text, "exportedValue")
           /\ getNumberOfExports(PkgIndex, TRUE) = CountStmts(text, "exportedType")

\* C16: every import statement of a module counts one unit in one bucket, whatever
\* the number of names it imports: the type bucket when it is marked type-only,
\* the value bucket otherwise (an import-equals always); the two buckets add up to
\* the number of import statements, and the item of the module displays them.
C16_OneUnitPerImport ==
    LET text == disk[PkgIndex].text
    IN ListedPkg =>
           /\ getNumberOfImports(PkgIndex, TRUE) = CountStmts(text, "typeOnlyImport")
           /\ getNumberOfImports(PkgIndex, FALSE)
                 = CountStmts(text, "import") - CountStmts(text, "typeOnlyImport")
           /\ \A item \in IndexItems :
                 /\ item.typeImportCount = CountStmts(text, "typeOnlyImport")
                 /\ item.valueImportCount + item.typeImportCount = CountStmts(text, "import")
                 /\ item.importSymbolCount = CountStmts(text, "import")

\* C16 witness: pkg/ was listed while index.ts was a barrel that imports MaxNames
\* names type-only, or by import-equals, and the item shows one import.
C16_Witness ==
    /\ ListedPkg
    /\ \E item \in IndexItems :
          \/ /\ disk[PkgIndex].text = <<ImportNames(SpecB, MaxNames, TRUE), ExportStar(SpecA, FALSE)>>
             /\ item.typeImportCount = 1
             /\ item.valueImportCount = 0
          \/ /\ disk[PkgIndex].text = <<ImportEquals(SpecA), ExportStar(SpecA, FALSE)>>
             /\ item.valueImportCount = 1
             /\ item.typeImportCount = 0

\* C18: a module whose text cannot be parsed into a declaration tree has no record
\* in the cache and no facts are reported for it: it is no barrel and its counts are
\* empty.
C18_MalformedHasNoRecord ==
    (ListedPkg /\ CountStmts(disk[PkgIndex].text, "garbage") > 0) =>
        /\ PkgIndex \notin DOMAIN sourceFileCache
        /\ IndexItems = {}
        /\ ~checkBarrelFile(PkgIndex)
        /\ getExportSymbolCounts(PkgIndex) = NoCounts
        /\ getNumberOfImports(PkgIndex, FALSE) + getNumberOfImports(PkgIndex, TRUE) = 0

\* the record the cache holds for a path, if any
RecordOf(cache, q) == IF q \in DOMAIN cache THEN <<cache[q]>> ELSE <<>>

\* C19: a step changes the cache record of a path q (adds, replaces or removes it)
\* only when it is a watcher handler running for a notification of q itself;
\* notifications of other paths and all queries leave the record of q as it is.
C19_CacheFrame ==
    [][\A q \in FilePaths :
          RecordOf(sourceFileCache, q)' # RecordOf(sourceFileCache, q)
             => /\ queue # <<>>
                /\ Head(queue).path = q
                /\ (ViewOnDidChange \/ ViewOnDidCreate \/ ViewOnDidDelete)]_vars

\* C19 witness: the deletion of pkg/a.ts was handled and a directory was listed
\* while the change of pkg/index.ts still waits: the cache holds the record of
\* index.ts read before the change, and none for a.ts.
C19_Witness ==
    /\ lastHandled.kind = "delete"
    /\ lastHandled.path = PkgA
    /\ PkgA \notin DOMAIN sourceFileCache
    /\ lastQuery.op = "viewDirectory"
    /\ queue # <<>>
    /\ Head(queue).path = PkgIndex
    /\ disk[PkgIndex] = File(IndexLocal)
    /\ PkgIndex \in DOMAIN sourceFileCache
    /\ sourceFileCache[PkgIndex] = createSourceFile(PkgIndex, IndexBarrel)

\* what exists below the workspace root: its directories and files
EntriesBelowRoot == {p \in (Dirs \cup FilePaths) \ {Root} : existsSync(disk, p)}

Range(seq) == {seq[k] : k \in DOMAIN seq}
NoDuplicates(seq) == \A j, k \in DOMAIN seq : seq[j] = seq[k] => j = k
DirectoryWalk == walk.kind \in {"scanAndCacheSourceFiles", "collectBarrelFiles", "searchFiles"}

\* a traversal of the workspace visits an entry at most once, and all of them
\* by the time it returns, with the result the query is defined to give
DirectoryWalkVisitsOnce ==
    DirectoryWalk =>
        /\ NoDuplicates(walk.visited)
        /\ Range(walk.visited) \subseteq EntriesBelowRoot
        /\ ~WalkRunning =>
              /\ Range(walk.visited) = EntriesBelowRoot
              /\ walk.kind = "scanAndCacheSourceFiles" =>
                    sourceFileCache = scanAndCacheSourceFiles(disk, Root)
              /\ walk.kind = "collectBarrelFiles" =>
                    walk.out = collectBarrelFiles(walk.cache0, disk, Root).barrelFiles
              /\ walk.kind = "searchFiles" =>
                    walk.out = findFilesUsingBarrel(disk, walk.arg)

\* the expansion parses the exports of its element and nothing below them
ExpansionOneLevel ==
    walk.kind = "expandExports" =>
        /\ Len(walk.stack) <= 1
        /\ Len(walk.out) = Len(walk.visited)
        /\ LET exports == parseBarrel(walk.cache0, disk, walk.arg).exports
           IN /\ Len(walk.visited) <= Len(exports)
              /\ \A k \in DOMAIN walk.visited : walk.visited[k] = exports[k].path
              /\ ~WalkRunning => Len(walk.visited) = Len(exports)

\* C20: every query runs to completion on a finite workspace: a traversal of
\* the workspace (scanAndCacheSourceFiles, collectBarrelFiles, searchFiles)
\* visits each directory entry once, the expansion of an element goes one
\* level deep whatever the barrels re-export, and a traversal that has
\* started returns.
C20_QueriesTerminate ==
    /\ [](DirectoryWalkVisitsOnce /\ ExpansionOneLevel)
    /\ WalkRunning ~> ~WalkRunning

\* pkg/index.ts and pkg/sub/index.ts re-export each other, the expansion of
\* pkg/sub/index.ts has returned pkg/index.ts with its export of pkg/sub/index.ts,
\* and before it every entry of the workspace was listed
C20_Witness ==
    /\ ~WalkRunning
    /\ walk.kind = "expandExports"
    /\ walk.arg = SubIndex
    /\ lastQuery.op = "expandExports"
    /\ ~lastQuery.threw
    /\ \E i \in DOMAIN lastQuery.items :
          /\ lastQuery.items[i].barrelPath = PkgIndex
          /\ \E k \in DOMAIN lastQuery.items[i].exports :
                lastQuery.items[i].exports[k].path = SubIndex

====
